---- MODULE Spec2Model ----
(***************************************************************************)
(* Model of the citation-linking and source-reconciliation core of app.py. *)
(*                                                                         *)
(* Strings are sequences of characters; a character is a TLA+ string.     *)
(* ASCII characters stand for themselves ("f", "/", "0", ...).  The CJK    *)
(* characters of the source are written in pinyin:                         *)
(*   "di" U+7B2C   "tiao" U+689D  "zhi" U+4E4B   "xiang" U+9805            *)
(*   "kuan" U+6B3E "mu" U+76EE    "dun" U+3001   "dou" U+FF0C              *)
(*   "ji" U+53CA   "yu" U+8207    "he" U+548C    "yi" U+4EE5               *)
(*   "lq" U+300A   "rq" U+300B    "jin" U+91D1   "fa" U+6CD5               *)
(* "nl" is the line feed and "sp" the space.                               *)
(***************************************************************************)
EXTENDS Integers, Sequences, FiniteSets, TLC

VARIABLES
    pc,            \* which operation has run
    filename,      \* extract_file_id: the identifier to resolve
    gemini_id_mapping, \* the reverse map (files/xxx -> fsc_pen_xxx), or None
    file_id,       \* extract_file_id: the returned value
    sources,       \* display_sources_simple: the evidence list
    file_mapping,  \* the case table (file_id -> case record)
    unique_sources, \* display_sources_simple: the reference list it builds
    text,          \* add_law_links_to_text: the text to annotate
    law_links_dict, \* add_law_links_to_text: the citation table
    linked,        \* the linker's final state on text
    relinked,      \* the linker's final state on its own output
    heading_text,  \* insert_case_links_by_order: the text with headings
    url_list,      \* insert_case_links_by_order: the aligned URLs
    titled,        \* the case-title linker's output on heading_text
    retitled,      \* the case-title linker's output on its own output
    raw_text,      \* remove_social_media_noise: the raw case text
    cleaned,       \* the noise filter's output on raw_text
    recleaned,     \* the noise filter's output on its own output
    query,         \* main: the query in the text area
    query_result,  \* main: the result of the last query_penalties call
    calls,         \* main: how many times query_penalties was called
    retry_attempted, \* main: the retry flag
    shown          \* main: what the page shows for this search

resolverVars == <<filename, file_id>>
rankerVars == <<sources, file_mapping, unique_sources>>
linkerVars == <<text, law_links_dict, linked, relinked>>
titleVars == <<heading_text, url_list, titled, retitled>>
noiseVars == <<raw_text, cleaned, recleaned>>
mainVars == <<query, query_result, calls, retry_attempted, shown>>

vars == <<pc, gemini_id_mapping, resolverVars, rankerVars, linkerVars,
          titleVars, noiseVars, mainVars>>

-----------------------------------------------------------------------------
(* Python values and string primitives *)

\* Python's None, as a value no string equals.
None == <<"<None>">>

Digits == {"0", "1", "2", "3", "4", "5", "6", "7", "8", "9"}

\* s[i:] with a 1-based i
From(s, i) == SubSeq(s, i, Len(s))

\* lit occurs in s at the 1-based position i
OccursAt(s, i, lit) ==
    /\ i + Len(lit) - 1 <= Len(s)
    /\ SubSeq(s, i, i + Len(lit) - 1) = lit

\* str.replace(old, ''): removes the non-overlapping occurrences of old,
\* scanning left to right.
RECURSIVE str_remove(_, _)
str_remove(s, old) ==
    IF s = <<>> THEN <<>>
    ELSE IF OccursAt(s, 1, old) THEN str_remove(From(s, Len(old) + 1), old)
    ELSE <<Head(s)>> \o str_remove(Tail(s), old)

\* the first n characters of s from position i are all in class
AllIn(s, i, n, class) ==
    /\ i + n - 1 <= Len(s)
    /\ \A k \in i..(i + n - 1) : s[k] \in class

-----------------------------------------------------------------------------
(* ID Resolver: extract_file_id *)

FilesPrefix == <<"f", "i", "l", "e", "s", "/">>
MdSuffix == <<".", "m", "d">>
PenPrefix == <<"f", "s", "c", "_", "p", "e", "n", "_">>
DateDigits == 8
SeqDigits == 4

\* re.match(r'(fsc_pen_\d{8}_\d{4})', s): group 1, or None
MatchCanonical(s) ==
    LET p == Len(PenPrefix)
        e == p + DateDigits + 1 + SeqDigits
    IN IF /\ OccursAt(s, 1, PenPrefix)
          /\ AllIn(s, p + 1, DateDigits, Digits)
          /\ OccursAt(s, p + DateDigits + 1, <<"_">>)
          /\ AllIn(s, p + DateDigits + 2, SeqDigits, Digits)
       THEN SubSeq(s, 1, e)
       ELSE None

\* full_id = f"files/{filename.replace('files/', '')}"
FullId(fname) == FilesPrefix \o str_remove(fname, FilesPrefix)

\* a mutant of FilenameClean: the 'files/' prefix is not removed
FilenameCleanKeepPrefix(fname) == str_remove(fname, MdSuffix)

\* filename_clean = filename.replace('files/', '').replace('.md', '')
FilenameClean(fname) == str_remove(str_remove(fname, FilesPrefix), MdSuffix)

\* `if gemini_id_mapping:` a dict is truthy when it is not None and not empty
MapTruthy(m) == ~m.isNone /\ DOMAIN m.items # {}

\* a mutant of extract_file_id: the cleaned raw name is the fallback
extract_file_id_fallback(fname, m) ==
    IF MapTruthy(m) /\ FullId(fname) \in DOMAIN m.items
    THEN m.items[FullId(fname)]
    ELSE IF MatchCanonical(FilenameClean(fname)) # None
    THEN MatchCanonical(FilenameClean(fname))
    ELSE FilenameClean(fname)

extract_file_id(fname, m) ==
    IF MapTruthy(m) /\ FullId(fname) \in DOMAIN m.items
    THEN m.items[FullId(fname)]
    ELSE MatchCanonical(FilenameClean(fname))

-----------------------------------------------------------------------------
(* Source Deduplicator & Ranker: display_sources_simple *)

\* dict.get(key, default)
Get(d, key, default) == IF key \in DOMAIN d THEN d[key] ELSE default

\* code points of the characters dates are written with
CodePoint ==
    [c \in Digits \cup {"-"} |->
        CASE c = "-" -> 45 [] c = "0" -> 48 [] c = "1" -> 49 [] c = "2" -> 50
          [] c = "3" -> 51 [] c = "4" -> 52 [] c = "5" -> 53 [] c = "6" -> 54
          [] c = "7" -> 55 [] c = "8" -> 56 [] c = "9" -> 57]

\* a < b for Python strings: lexicographic by code point
RECURSIVE StrLt(_, _)
StrLt(a, b) ==
    IF b = <<>> THEN FALSE
    ELSE IF a = <<>> THEN TRUE
    ELSE IF Head(a) # Head(b) THEN CodePoint[Head(a)] < CodePoint[Head(b)]
    ELSE StrLt(Tail(a), Tail(b))

\* key=lambda item: file_mapping.get(item['file_id'], {}).get('date', '')
SortKey(item, fm) == Get(Get(fm, item.file_id, <<>>), "date", <<>>)

\* a mutant of Skipped: an id absent from the case table is kept
SkippedOnlyUnresolved(fid, fm) == fid = None \/ fid = <<>>

\* `if not file_id or file_id not in file_mapping: continue`
Skipped(fid, fm) == fid = None \/ fid = <<>> \/ fid \notin DOMAIN fm

\* the loop over sources: builds unique_sources with the seen set
RECURSIVE CollectUnique(_, _, _, _, _)
CollectUnique(srcs, fm, gm, unique, seen) ==
    IF srcs = <<>> THEN unique
    ELSE LET source == Head(srcs)
             fid == extract_file_id(source.filename, gm)
         IN IF Skipped(fid, fm) \/ fid \in seen
            THEN CollectUnique(Tail(srcs), fm, gm, unique, seen)
            ELSE CollectUnique(Tail(srcs), fm, gm,
                     Append(unique, [file_id |-> fid, snippet |-> source.snippet]),
                     seen \cup {fid})

\* a mutant of InsertDesc: x goes before the elements with an equal key
InsertDescBeforeEqual(sorted, x, fm) ==
    LET n == Cardinality({k \in 1..Len(sorted) :
                             StrLt(SortKey(x, fm), SortKey(sorted[k], fm))})
    IN SubSeq(sorted, 1, n) \o <<x>> \o SubSeq(sorted, n + 1, Len(sorted))

\* one step of the stable descending sort: x goes after every element whose
\* key is not smaller than its own
InsertDesc(sorted, x, fm) ==
    LET n == Cardinality({k \in 1..Len(sorted) :
                             ~StrLt(SortKey(sorted[k], fm), SortKey(x, fm))})
    IN SubSeq(sorted, 1, n) \o <<x>> \o SubSeq(sorted, n + 1, Len(sorted))

\* unique_sources.sort(key=..., reverse=True): stable, descending
RECURSIVE SortByDateDesc(_, _, _)
SortByDateDesc(items, sorted, fm) ==
    IF items = <<>> THEN sorted
    ELSE SortByDateDesc(Tail(items), InsertDesc(sorted, Head(items), fm), fm)

\* the reference list display_sources_simple shows (empty on the early returns)
display_sources_simple(srcs, fm, gm) ==
    IF srcs = <<>> THEN <<>>
    ELSE LET unique == CollectUnique(srcs, fm, gm, <<>>, {})
         IN IF unique = <<>> THEN <<>>
            ELSE SortByDateDesc(unique, <<>>, fm)

-----------------------------------------------------------------------------
(* Regular expressions, matched as Python's backtracking matcher does *)

\* A pattern is a sequence of items; the alternatives of an item are tried in
\* Python's order (greedy first) and the first one under which the rest of
\* the pattern matches is taken.
Lit(l) == [k |-> "lit", lit |-> l, cls |-> {}, min |-> 0, sub |-> <<>>]
OneOf(c) == [k |-> "set", lit |-> <<>>, cls |-> c, min |-> 0, sub |-> <<>>]
Rep(c, m) == [k |-> "rep", lit |-> <<>>, cls |-> c, min |-> m, sub |-> <<>>]
Opt(items) == [k |-> "opt", lit |-> <<>>, cls |-> {}, min |-> 0, sub |-> items]
NotBehind(c) == [k |-> "notbehind", lit |-> <<>>, cls |-> {c}, min |-> 0, sub |-> <<>>]
NotAhead(c) == [k |-> "notahead", lit |-> <<>>, cls |-> {c}, min |-> 0, sub |-> <<>>]

\* the length of the longest run of characters of class from position i
RECURSIVE Run(_, _, _)
Run(s, i, class) ==
    IF i <= Len(s) /\ s[i] \in class THEN 1 + Run(s, i + 1, class) ELSE 0

\* the longest run of characters other than the line feed ('.') from i
RECURSIVE DotRun(_, _)
DotRun(s, i) ==
    IF i <= Len(s) /\ s[i] # "nl" THEN 1 + DotRun(s, i + 1) ELSE 0

\* rx_match(items, s, pos): the 1-based position after the match of the
\* pattern at pos, or 0 when it does not match there.
RECURSIVE rx_match(_, _, _)
RECURSIVE rx_rep(_, _, _, _, _)
rx_rep(rest, s, pos, n, m) ==
    IF n < m THEN 0
    ELSE LET r == rx_match(rest, s, pos + n)
         IN IF r # 0 THEN r ELSE rx_rep(rest, s, pos, n - 1, m)

rx_match(items, s, pos) ==
    IF items = <<>> THEN pos
    ELSE LET h == Head(items)
             rest == Tail(items)
         IN CASE h.k = "lit" ->
                   IF OccursAt(s, pos, h.lit)
                   THEN rx_match(rest, s, pos + Len(h.lit)) ELSE 0
              [] h.k = "set" ->
                   IF pos <= Len(s) /\ s[pos] \in h.cls
                   THEN rx_match(rest, s, pos + 1) ELSE 0
              [] h.k = "rep" ->
                   rx_rep(rest, s, pos, Run(s, pos, h.cls), h.min)
              [] h.k = "opt" ->
                   LET r == rx_match(h.sub \o rest, s, pos)
                   IN IF r # 0 THEN r ELSE rx_match(rest, s, pos)
              [] h.k = "notbehind" ->
                   IF pos = 1 \/ s[pos - 1] \notin h.cls
                   THEN rx_match(rest, s, pos) ELSE 0
              [] h.k = "notahead" ->
                   IF pos > Len(s) \/ s[pos] \notin h.cls
                   THEN rx_match(rest, s, pos) ELSE 0

\* re.finditer(pattern, s): the non-overlapping matches from left to right,
\* as 0-based half-open spans with the text they cover
RECURSIVE finditer(_, _, _)
finditer(items, s, pos) ==
    IF pos > Len(s) + 1 THEN <<>>
    ELSE LET e == rx_match(items, s, pos)
         IN IF e = 0 THEN finditer(items, s, pos + 1)
            ELSE IF e = pos
            THEN <<[start |-> pos - 1, end |-> e - 1, text |-> <<>>]>>
                     \o finditer(items, s, pos + 1)
            ELSE <<[start |-> pos - 1, end |-> e - 1, text |-> SubSeq(s, pos, e - 1)]>>
                     \o finditer(items, s, e)

-----------------------------------------------------------------------------
(* Law-Citation Linker: add_law_links_to_text *)

Whitespace == {"sp", "nl"}
Connectors1 == {"dun", "dou", "ji", "yu", "he", "yi"}
Connectors2 == {"dun", "dou", "ji", "yu", "he"}

\* (?:\u7b2c\d+\u9805)?(?:\u7b2c\d+\u6b3e)?(?:\u7b2c\d+\u76ee)?(?!\])(?!\))
QualifiersAndLookahead ==
    << Opt(<<Lit(<<"di">>), Rep(Digits, 1), Lit(<<"xiang">>)>>),
       Opt(<<Lit(<<"di">>), Rep(Digits, 1), Lit(<<"kuan">>)>>),
       Opt(<<Lit(<<"di">>), Rep(Digits, 1), Lit(<<"mu">>)>>),
       NotAhead("]"), NotAhead(")") >>

\* the article part of a key: \u7b2c\d+\u689d(?:\u4e4b\d+)?
ArticleItems ==
    << Lit(<<"di">>), Rep(Digits, 1), Lit(<<"tiao">>),
       Opt(<<Lit(<<"zhi">>), Rep(Digits, 1)>>) >>

\* law_match = re.match(r'^(.+?)(article)', law): the shortest non-empty
\* law name after which the article matches (ok is FALSE for no match)
RECURSIVE LawSplitFrom(_, _)
LawSplitFrom(law, n) ==
    IF n > Len(law) \/ law[n] = "nl"
    THEN [ok |-> FALSE, law_name |-> <<>>, article |-> <<>>]
    ELSE LET e == rx_match(ArticleItems, law, n + 1)
         IN IF e # 0
            THEN [ok |-> TRUE, law_name |-> SubSeq(law, 1, n),
                  article |-> SubSeq(law, n + 1, e - 1)]
            ELSE LawSplitFrom(law, n + 1)

LawSplit(law) == LawSplitFrom(law, 1)

\* the phase 1 pattern of a key split into law_name and article
Pattern1(law_name, article) ==
    << NotBehind("["), NotBehind("("),
       Opt(<<OneOf(Connectors1), Rep(Whitespace, 0)>>),
       Opt(<<Lit(<<"lq">>)>>), Lit(law_name), Opt(<<Lit(<<"rq">>)>>),
       Rep(Whitespace, 0), Lit(article) >> \o QualifiersAndLookahead

\* the phase 2 pattern of an abbreviated key
Pattern2(law) ==
    << NotBehind("["), NotBehind("("),
       OneOf(Connectors2), Rep(Whitespace, 0), Lit(law) >> \o QualifiersAndLookahead

\* (.+)$ from position p of mt: the position after group 2, or 0
DotPlusEnd(mt, p) ==
    LET r == DotRun(mt, p)
    IN IF r >= 1 /\ (p + r = Len(mt) + 1 \/ (p + r = Len(mt) /\ mt[Len(mt)] = "nl"))
       THEN p + r ELSE 0

\* re.match(r'^([connectors]\s*)?(.+)$', matched_text) of phase 1, the
\* whitespace run of group 1 tried longest first (ok is FALSE for no match)
NoConnectorMatch == [ok |-> FALSE, connector |-> <<>>, part |-> <<>>]

RECURSIVE ConnectorMatch1From(_, _)
ConnectorMatch1From(mt, k) ==
    IF k < 0
    THEN IF DotPlusEnd(mt, 1) # 0
         THEN [ok |-> TRUE, connector |-> <<>>,
               part |-> SubSeq(mt, 1, DotPlusEnd(mt, 1) - 1)]
         ELSE NoConnectorMatch
    ELSE IF DotPlusEnd(mt, 2 + k) # 0
    THEN [ok |-> TRUE, connector |-> SubSeq(mt, 1, 1 + k),
          part |-> SubSeq(mt, 2 + k, DotPlusEnd(mt, 2 + k) - 1)]
    ELSE ConnectorMatch1From(mt, k - 1)

ConnectorMatch1(mt) ==
    IF mt # <<>> /\ mt[1] \in Connectors1
    THEN ConnectorMatch1From(mt, Run(mt, 2, Whitespace))
    ELSE ConnectorMatch1From(mt, -1)

\* re.match(r'([connectors]\s*)(.+)', matched_text) of phase 2
RECURSIVE ConnectorMatch2From(_, _)
ConnectorMatch2From(mt, k) ==
    IF k < 0 THEN NoConnectorMatch
    ELSE IF DotRun(mt, 2 + k) >= 1
    THEN [ok |-> TRUE, connector |-> SubSeq(mt, 1, 1 + k),
          part |-> SubSeq(mt, 2 + k, 1 + k + DotRun(mt, 2 + k))]
    ELSE ConnectorMatch2From(mt, k - 1)

ConnectorMatch2(mt) ==
    IF mt # <<>> /\ mt[1] \in Connectors2
    THEN ConnectorMatch2From(mt, Run(mt, 2, Whitespace))
    ELSE NoConnectorMatch

\* f'{connector}[{part}]({link})'
LinkMarkup(connector, part, link) ==
    connector \o <<"[">> \o part \o <<"]", "(">> \o link \o <<")">>

\* the replacement of one match: phase 1 falls back to wrapping the whole
\* matched text, phase 2 replaces nothing when its connector match fails
Replacement1(mt, link) ==
    IF ConnectorMatch1(mt).ok
    THEN LinkMarkup(ConnectorMatch1(mt).connector, ConnectorMatch1(mt).part, link)
    ELSE LinkMarkup(<<>>, mt, link)

Replacement2(mt, link) ==
    IF ConnectorMatch2(mt).ok
    THEN LinkMarkup(ConnectorMatch2(mt).connector, ConnectorMatch2(mt).part, link)
    ELSE None

\* the check against replaced_positions: start < pos_end and end > pos
IsOverlapping(m, replaced_positions) ==
    \E p \in replaced_positions : m.start < p[2] /\ m.end > p[1]

\* the matches of a pattern that pass the overlap check, in text order
Matches(items, st) ==
    SelectSeq(finditer(items, st.result, 1),
              LAMBDA m : ~IsOverlapping(m, st.replaced_positions))

\* The linker's state: the buffer result, the set replaced_positions, and
\* links, the history of the replacements made: for each one its key and
\* url, the matched text, the replacement, and the span from..to (0-based,
\* half-open) its link markup occupies in the current buffer.
ShiftLink(g, start, end, d) ==
    [g EXCEPT !.from = IF g.from >= end THEN g.from + d ELSE g.from,
              !.to = IF g.to >= end THEN g.to + d ELSE g.to]

\* result = result[:start] + replacement + result[end:], and
\* replaced_positions.add((start, start + len(replacement)))
Replace(st, m, replacement, law, link) ==
    LET d == Len(replacement) - (m.end - m.start)
        bracket == CHOOSE i \in 1..Len(replacement) :
                       replacement[i] = "[" /\ \A j \in 1..(i - 1) : replacement[j] # "["
    IN [result |-> SubSeq(st.result, 1, m.start) \o replacement
                       \o From(st.result, m.end + 1),
        replaced_positions |->
            st.replaced_positions \cup {<<m.start, m.start + Len(replacement)>>},
        links |-> Append([i \in 1..Len(st.links) |-> ShiftLink(st.links[i], m.start, m.end, d)],
                         [law |-> law, link |-> link, matched |-> m.text,
                          replacement |-> replacement,
                          from |-> m.start + bracket - 1,
                          to |-> m.start + Len(replacement)])]

\* `for start, end, matched_text in reversed(matches)` of one phase
RECURSIVE ReplaceBackToFront(_, _, _, _, _)
ReplaceBackToFront(st, matches, law, link, phase) ==
    IF matches = <<>> THEN st
    ELSE LET m == matches[Len(matches)]
             replacement == IF phase = 1 THEN Replacement1(m.text, link)
                            ELSE Replacement2(m.text, link)
             front == SubSeq(matches, 1, Len(matches) - 1)
         IN IF replacement = None
            THEN ReplaceBackToFront(st, front, law, link, phase)
            ELSE ReplaceBackToFront(Replace(st, m, replacement, law, link),
                                    front, law, link, phase)

\* law.startswith('\u7b2c')
StartsWithDi(law) == law # <<>> /\ law[1] = "di"

\* one iteration of the first loop, for the key law
Phase1Key(st, law, link) ==
    IF StartsWithDi(law) \/ ~LawSplit(law).ok THEN st
    ELSE LET items == Pattern1(LawSplit(law).law_name, LawSplit(law).article)
         IN ReplaceBackToFront(st, Matches(items, st), law, link, 1)

\* one iteration of the second loop, for the key law
Phase2Key(st, law, link) ==
    IF ~StartsWithDi(law) THEN st
    ELSE ReplaceBackToFront(st, Matches(Pattern2(law), st), law, link, 2)

\* law_links_dict is a dict in insertion order: a sequence of entries
\* [law, link] with distinct keys.
\* sorted(law_links_dict.keys(), key=len, reverse=True): stable, longest first
RECURSIVE SortedLaws(_)
SortedLaws(d) ==
    IF d = <<>> THEN <<>>
    ELSE LET longest == CHOOSE i \in 1..Len(d) :
                 /\ \A j \in 1..Len(d) : Len(d[j].law) <= Len(d[i].law)
                 /\ \A j \in 1..(i - 1) : Len(d[j].law) < Len(d[i].law)
         IN <<d[longest]>>
                \o SortedLaws(SubSeq(d, 1, longest - 1) \o SubSeq(d, longest + 1, Len(d)))

RECURSIVE RunPhase(_, _, _)
RunPhase(st, laws, phase) ==
    IF laws = <<>> THEN st
    ELSE RunPhase(IF phase = 1 THEN Phase1Key(st, Head(laws).law, Head(laws).link)
                  ELSE Phase2Key(st, Head(laws).law, Head(laws).link),
                  Tail(laws), phase)

\* add_law_links_to_text(text, law_links_dict): the final linker state, whose
\* result field is the returned text
add_law_links_to_text(t, d) ==
    LET st0 == [result |-> t, replaced_positions |-> {}, links |-> <<>>]
    IN IF d = <<>> THEN st0
       ELSE RunPhase(RunPhase(st0, SortedLaws(d), 1), SortedLaws(d), 2)

-----------------------------------------------------------------------------
(* Case-Title Linker: insert_case_links_by_order *)

\* the characters texts are written with, and those '[^\n]' accepts
Chars ==
    Digits \cup Whitespace \cup Connectors1
      \cup {"di", "tiao", "zhi", "xiang", "kuan", "mu", "lq", "rq", "jin", "fa",
            "[", "]", "(", ")", "#", ".", "/", "-", "_", ":",
            "A", "B", "S", "h", "u", "v", "x"}

NotLineFeed == Chars \ {"nl"}

\* (###\s*\d+\.\s+) followed by the first character of ([^\n]+)
HeadingItems ==
    << Lit(<<"#", "#", "#">>), Rep(Whitespace, 0), Rep(Digits, 1), Lit(<<".">>),
       Rep(Whitespace, 1), OneOf(NotLineFeed) >>

\* list(re.finditer(r'(###\s*\d+\.\s+)([^\n]+)', text)): for each match its
\* 0-based half-open span, group 1 (prefix) and group 2 (title)
RECURSIVE HeadingMatches(_, _)
HeadingMatches(s, pos) ==
    IF pos > Len(s) THEN <<>>
    ELSE LET e == rx_match(HeadingItems, s, pos)
             last == e - 2 + DotRun(s, e - 1)
         IN IF e = 0 THEN HeadingMatches(s, pos + 1)
            ELSE <<[start |-> pos - 1, end |-> last,
                    prefix |-> SubSeq(s, pos, e - 2),
                    title |-> SubSeq(s, e - 1, last)]>>
                     \o HeadingMatches(s, last + 1)

\* str.strip()
RECURSIVE Strip(_)
Strip(s) ==
    IF s = <<>> THEN s
    ELSE IF Head(s) \in Whitespace THEN Strip(Tail(s))
    ELSE IF s[Len(s)] \in Whitespace THEN Strip(SubSeq(s, 1, Len(s) - 1))
    ELSE s

\* a mutant of AlreadyLinked: no title is taken for a link
AlreadyLinkedNever(title) == FALSE

\* title.startswith('[') and '](' in title
AlreadyLinked(title) ==
    /\ title # <<>>
    /\ title[1] = "["
    /\ \E k \in 1..(Len(title) - 1) : title[k] = "]" /\ title[k + 1] = "("

\* a mutant of HeadingIndex: the position in the reversed enumeration is used
HeadingIndexForward(n, i) == i

\* idx = len(matches) - 1 - i
HeadingIndex(n, i) == n - 1 - i

\* the loop `for i, match in enumerate(reversed(matches))`
RECURSIVE InsertLoop(_, _, _, _)
InsertLoop(result, matches, i, case_urls) ==
    IF i >= Len(matches) THEN result
    ELSE LET match == matches[Len(matches) - i]
             idx == HeadingIndex(Len(matches), i)
             title == Strip(match.title)
         IN IF idx >= Len(case_urls) \/ AlreadyLinked(title)
            THEN InsertLoop(result, matches, i + 1, case_urls)
            ELSE InsertLoop(
                     SubSeq(result, 1, match.start)
                         \o match.prefix \o <<"[">> \o title \o <<"]", "(">>
                         \o case_urls[idx + 1] \o <<")">>
                         \o From(result, match.end + 1),
                     matches, i + 1, case_urls)

insert_case_links_by_order(t, case_urls) ==
    IF case_urls = <<>> THEN t
    ELSE IF HeadingMatches(t, 1) = <<>> THEN t
    ELSE InsertLoop(t, HeadingMatches(t, 1), 0, case_urls)

-----------------------------------------------------------------------------
(* Noise Filter: remove_social_media_noise.  A character outside ASCII is  *)
(* the token "uXXXX" of its code point.                                    *)

\* the characters str.strip() removes, of those the inputs hold: space, line
\* feed, tab, carriage return, ideographic space
StripChars == Whitespace \cup {"tab", "cr", "u3000"}

\* line.strip()
RECURSIVE strip(_)
strip(s) ==
    IF s = <<>> THEN s
    ELSE IF Head(s) \in StripChars THEN strip(Tail(s))
    ELSE IF s[Len(s)] \in StripChars THEN strip(SubSeq(s, 1, Len(s) - 1))
    ELSE s

\* text.split('\n'): the pieces between line feeds, at least one piece
RECURSIVE split(_)
split(t) ==
    IF \A k \in 1..Len(t) : t[k] # "nl" THEN <<t>>
    ELSE LET k == CHOOSE j \in 1..Len(t) : t[j] = "nl" /\ \A i \in 1..(j - 1) : t[i] # "nl"
         IN <<SubSeq(t, 1, k - 1)>> \o split(From(t, k + 1))

\* '\n'.join(lines)
RECURSIVE join(_)
join(lines) ==
    IF lines = <<>> THEN <<>>
    ELSE IF Len(lines) = 1 THEN lines[1]
    ELSE lines[1] \o <<"nl">> \o join(Tail(lines))

\* the 20 noise patterns, in the order of the list; each is a literal
noise_patterns ==
    << <<"f", "a", "c", "e", "b", "o", "o", "k">>,
       <<"F", "a", "c", "e", "b", "o", "o", "k">>,
       <<"t", "w", "i", "t", "t", "e", "r">>,
       <<"T", "w", "i", "t", "t", "e", "r">>,
       <<"l", "i", "n", "e">>,
       <<"L", "I", "N", "E">>,
       <<"u5206", "u4EAB">>,
       <<"u5217", "u5370">>,
       <<"u8F49", "u5BC4">>,
       <<"u53CB", "u5584", "u5217", "u5370">>,
       <<"u56DE", "u4E0A", "u4E00", "u9801">>,
       <<":", ":", ":">>,
       <<"u56DE", "u9996", "u9801">>,
       <<"u7DB2", "u7AD9", "u5C0E", "u89BD">>,
       <<"E", "n", "g", "l", "i", "s", "h">>,
       <<"u5152", "u7AE5", "u7248">>,
       <<"u884C", "u52D5", "u7248">>,
       <<"R", "S", "S">>,
       <<"u5B57", "u7D1A", "u5927", "u5C0F">>,
       <<"u5C0F", "sp", "u4E2D", "sp", "u5927">> >>

\* re.IGNORECASE: the characters that match a lower-case letter besides
\* itself, A-Z and the four letters outside ASCII that fold to i, s and k
IgnoreCaseMap ==
    [ A |-> "a", B |-> "b", C |-> "c", D |-> "d", E |-> "e", F |-> "f", G |-> "g", H
      |-> "h", I |-> "i", J |-> "j", K |-> "k", L |-> "l", M |-> "m", N |-> "n", O |->
      "o", P |-> "p", Q |-> "q", R |-> "r", S |-> "s", T |-> "t", U |-> "u", V |->
      "v", W |-> "w", X |-> "x", Y |-> "y", Z |-> "z", u0130 |-> "i", u0131 |-> "i",
      u017F |-> "s", u212A |-> "k" ]

IgnoreCase(c) == IF c \in DOMAIN IgnoreCaseMap THEN IgnoreCaseMap[c] ELSE c

\* re.search(pattern, line, re.IGNORECASE) for a literal pattern
re_search_ignorecase(pattern, line) ==
    \E k \in 1..(Len(line) - Len(pattern) + 1) :
        \A j \in 1..Len(pattern) : IgnoreCase(line[k + j - 1]) = IgnoreCase(pattern[j])

\* re.search(pattern, line) without the flag
re_search(pattern, line) ==
    \E k \in 1..(Len(line) - Len(pattern) + 1) :
        \A j \in 1..Len(pattern) : line[k + j - 1] = pattern[j]

\* the noise test of a line with the patterns matched in exact case
is_noise_exact_case(line) ==
    \E i \in 1..Len(noise_patterns) : re_search(noise_patterns[i], line)

\* is_noise after the loop over the patterns
is_noise(line) ==
    \E i \in 1..Len(noise_patterns) : re_search_ignorecase(noise_patterns[i], line)

\* the loop over the lines: cleaned_lines
RECURSIVE cleaned_lines(_)
cleaned_lines(lines) ==
    IF lines = <<>> THEN <<>>
    ELSE LET line == strip(Head(lines))
         IN IF line = <<>> THEN cleaned_lines(Tail(lines))
            ELSE IF is_noise(line) THEN cleaned_lines(Tail(lines))
            ELSE <<line>> \o cleaned_lines(Tail(lines))

remove_social_media_noise(t) == join(cleaned_lines(split(t)))

-----------------------------------------------------------------------------
(* main: the search handler *)

\* `if result['success'] and len(result.get('sources', [])) == 0`, with the
\* condition on success left out
NeedsRetryOnNoSources(r) == Len(r.sources) = 0

\* `if result['success'] and len(result.get('sources', [])) == 0`
NeedsRetry(r) == r.success /\ Len(r.sources) = 0

\* the loop over result['sources']: file_ids_with_info, a record per
\* evidence item whose case record is not empty
RECURSIVE file_ids_with_info(_, _, _)
file_ids_with_info(srcs, mapping, gm) ==
    IF srcs = <<>> THEN <<>>
    ELSE LET fid == extract_file_id(Head(srcs).filename, gm)
             file_info == Get(mapping, fid, <<>>)
         IN (IF DOMAIN file_info # {}
             THEN <<[file_id |-> fid,
                     date |-> Get(file_info, "date", <<>>),
                     original_url |-> Get(file_info, "original_url", <<>>),
                     law_links |-> Get(file_info, "law_links", <<>>)]>>
             ELSE <<>>)
                \o file_ids_with_info(Tail(srcs), mapping, gm)

\* the characters a citation key may not start with: \u8207 \u540c \u53ca
\* \u6216 \u548c
InvalidLawStarts == {"yu", "tong", "ji", "huo", "he"}

\* filtered_law_links: the entries whose key does not start with one of them
RECURSIVE filtered_law_links(_)
filtered_law_links(law_links) ==
    IF law_links = <<>> THEN <<>>
    ELSE (IF Head(law_links).law # <<>> /\ Head(law_links).law[1] \in InvalidLawStarts
          THEN <<>> ELSE <<Head(law_links)>>)
             \o filtered_law_links(Tail(law_links))

\* d.update(items): a key d holds keeps its place and takes the new value, a
\* new key goes to the end
RECURSIVE dict_update(_, _)
dict_update(d, items) ==
    IF items = <<>> THEN d
    ELSE LET it == Head(items)
             held == {k \in 1..Len(d) : d[k].law = it.law}
         IN dict_update(IF held = {} THEN Append(d, it)
                        ELSE [k \in 1..Len(d) |-> IF k \in held THEN it ELSE d[k]],
                        Tail(items))

\* the loop that collects all_law_links from the sorted records
RECURSIVE all_law_links(_, _)
all_law_links(infos, acc) ==
    IF infos = <<>> THEN acc
    ELSE all_law_links(Tail(infos), dict_update(acc, filtered_law_links(Head(infos).law_links)))

\* case_urls: the URLs of the sorted records that are not empty
RECURSIVE case_urls(_)
case_urls(infos) ==
    IF infos = <<>> THEN <<>>
    ELSE (IF Head(infos).original_url # <<>> THEN <<Head(infos).original_url>> ELSE <<>>)
             \o case_urls(Tail(infos))

\* file_ids_with_info after the sort by date, newest first; the key x['date']
\* of a record is the date of its file_id in the mapping, which SortKey reads
sorted_file_ids_with_info(srcs, mapping, gm) ==
    SortByDateDesc(file_ids_with_info(srcs, mapping, gm), <<>>, mapping)

\* the displayed text when the Law-Citation Linker runs after the Case-Title
\* Linker
response_with_law_links(response_text, urls, law_links) ==
    add_law_links_to_text(insert_case_links_by_order(response_text, urls), law_links).result

\* response_with_all_links: the displayed text
response_with_all_links(response_text, urls, law_links) ==
    insert_case_links_by_order(response_text, urls)

\* what the page shows for a search: st.error, the two st.warning, or the
\* answer with the locals it was made from
ShowError(msg) ==
    [kind |-> "error", text |-> <<>>, case_urls |-> <<>>, all_law_links |-> <<>>,
     references |-> FALSE, error |-> msg]
ShowNoResultWarning ==
    [kind |-> "warning", text |-> <<>>, case_urls |-> <<>>, all_law_links |-> <<>>,
     references |-> FALSE, error |-> <<>>]
ShowNoQueryWarning ==
    [kind |-> "no_query", text |-> <<>>, case_urls |-> <<>>, all_law_links |-> <<>>,
     references |-> FALSE, error |-> <<>>]
ShowAnswer(r, mapping, gm) ==
    LET infos == IF Len(r.sources) > 0 THEN sorted_file_ids_with_info(r.sources, mapping, gm)
                 ELSE <<>>
        urls == case_urls(infos)
        laws == all_law_links(infos, <<>>)
    IN [kind |-> "answer", text |-> response_with_all_links(r.text, urls, laws),
        case_urls |-> urls, all_law_links |-> laws,
        references |-> Len(r.sources) > 0, error |-> <<>>]

-----------------------------------------------------------------------------
(* Bounded inputs *)

\* the concatenations of at most n words of W
RECURSIVE Phrases(_, _)
Phrases(W, n) ==
    IF n = 0 THEN {<<>>}
    ELSE LET P == Phrases(W, n - 1) IN P \cup {p \o w : p \in P, w \in W}

MaxParts == 4

\* canonical ids of the case table, and the opaque id of a retrieved chunk
Stem1 == PenPrefix \o <<"2", "0", "2", "3", "0", "1", "0", "1", "_">>
Id1 == Stem1 \o <<"0", "0", "0", "1">>
Id2 == PenPrefix \o <<"2", "0", "2", "3", "0", "1", "0", "2", "_", "0", "0", "0", "2">>
Opaque == <<"4", "a", "x">>

FilenameWords ==
    { FilesPrefix, MdSuffix, Stem1, <<"0", "0", "0", "1">>, <<"a", "b", "c", "d">>,
      <<"9">>, Opaque }

Filenames == Phrases(FilenameWords, MaxParts)

NoMap == [isNone |-> TRUE, items |-> <<>>]
DictOf(f) == [isNone |-> FALSE, items |-> f]

ReverseMaps ==
    { NoMap,
      DictOf(<<>>),
      DictOf((FilesPrefix \o Opaque) :> Id1),
      DictOf((FilesPrefix \o Id1 \o MdSuffix) :> Id2),
      DictOf((FilesPrefix \o <<"a", "b", "c", "d">>) :> Opaque) }

MaxSources == 4

Id3 == PenPrefix \o <<"2", "0", "2", "2", "1", "2", "3", "1", "_", "0", "0", "0", "3">>
Id4 == PenPrefix \o <<"2", "0", "2", "1", "0", "5", "0", "5", "_", "0", "0", "0", "4">>
Date1 == <<"2", "0", "2", "3", "-", "0", "1", "-", "0", "1">>
Date2 == <<"2", "0", "2", "2", "-", "1", "2", "-", "3", "1">>
Url(c) == <<"h", "/", c>>

\* identifiers of evidence items: Id1 by filename and by opaque id, Id2, Id3,
\* one that fails resolution, one that resolves to an id outside the table
EvidenceNames ==
    { Id1 \o MdSuffix, FilesPrefix \o Opaque, Id2, FilesPrefix \o Id3 \o MdSuffix,
      <<"a", "b", "c", "d">>, Id4 }

DigitChar == <<"1", "2", "3", "4", "5", "6", "7", "8", "9">>

\* evidence lists: item k carries the excerpt named after its position
EvidenceLists ==
    UNION { { [k \in 1..n |-> [filename |-> names[k], snippet |-> <<"s", DigitChar[k]>>]]
              : names \in [1..n -> EvidenceNames] } : n \in 0..MaxSources }

\* case tables over Id1, Id2, Id3: Id2 shares its date with Id1 or with Id3,
\* and the record of Id3 may lack its date
CaseTables ==
    { (Id1 :> [date |-> Date1, original_url |-> Url("1")])
        @@ (Id2 :> [date |-> d2, original_url |-> Url("2")])
        @@ (Id3 :> r3) :
        d2 \in {Date1, Date2},
        r3 \in {[date |-> Date2, original_url |-> Url("3")], [original_url |-> Url("3")]} }

RankerMaps == { DictOf((FilesPrefix \o Opaque) :> Id1) }

MaxWords == 4

UrlA == <<"u", "A">>
UrlB == <<"u", "B">>
UrlS == <<"u", "S">>
LawA == <<"fa", "di", "4", "tiao">>
LawB == <<"jin", "fa", "di", "4", "tiao">>
LawS == <<"di", "5", "tiao">>

\* citation tables: empty, and one holding a full key, a longer full key that
\* ends with it, and an abbreviated key
LawTables ==
    { <<>>,
      << [law |-> LawA, link |-> UrlA], [law |-> LawB, link |-> UrlB],
         [law |-> LawS, link |-> UrlS] >> }

\* the pieces texts are made of: citations of both laws, a citation broken
\* across a line, one in book-title quotes, a paragraph qualifier, a
\* sub-article suffix, a connector, an abbreviated citation, the two ends of an
\* existing link, and other text
TextWords ==
    { LawB, LawA, <<"fa", "nl", "di", "4", "tiao">>,
      <<"lq", "fa", "rq", "di", "4", "tiao">>, <<"di", "1", "xiang">>,
      <<"zhi", "1">>, <<"ji">>, LawS, <<"[">>, <<"]", "(", "h", ")">>, <<"x">> }

Texts == Phrases(TextWords, MaxWords)

MaxLines == 3

\* JoinLines(ls): '\n'.join(ls)
RECURSIVE JoinLines(_)
JoinLines(ls) ==
    IF ls = <<>> THEN <<>>
    ELSE IF Len(ls) = 1 THEN ls[1]
    ELSE ls[1] \o <<"nl">> \o JoinLines(Tail(ls))

\* the sequences of at most n elements of S
SeqsUpTo(S, n) == UNION {[1..k -> S] : k \in 0..n}

\* lines of a generated answer: a heading, a heading whose title is already a
\* link, a heading marker with its title on the next line, a heading with a
\* trailing space, a heading whose title only starts like a link, a heading
\* whose title is blank, other text, an empty line
HeadingLines ==
    { <<"#", "#", "#", "sp", "1", ".", "sp", "A">>,
      <<"#", "#", "#", "sp", "2", ".", "sp", "[", "A", "]", "(", "v", ")">>,
      <<"#", "#", "#", "3", ".">>,
      <<"#", "#", "#", "sp", "4", ".", "sp", "B", "sp">>,
      <<"#", "#", "#", "sp", "5", ".", "sp", "[", "B">>,
      <<"#", "#", "#", "sp", "6", ".", "sp", "sp">>,
      <<"x">>,
      <<>> }

HeadingTexts == {JoinLines(ls) : ls \in SeqsUpTo(HeadingLines, MaxLines)}

AllUrls == << <<"u", "1">>, <<"u", "2">>, <<"u", "3">> >>

\* URL lists: the first n URLs, n = 0..3
UrlLists == {SubSeq(AllUrls, 1, n) : n \in 0..Len(AllUrls)}

\* lines of a scraped page: markers in lower, upper and mixed case, a word
\* that holds a marker, a marker written with a dotless i, markers cut short,
\* content with blanks around it, a blank line, an empty line
RawLines ==
    { <<"f", "a", "c", "e", "b", "o", "o", "k">>,
      <<"sp", "L", "i", "n", "e", "sp">>,
      <<"o", "n", "l", "i", "n", "e">>,
      <<"l", "u0131", "n", "e">>,
      <<"r", "s", "s", "tab">>,
      <<"u5217", "u5370">>,
      <<"u5217">>,
      <<":", ":", ":", "x">>,
      <<":", ":">>,
      <<"u5C0F", "sp", "u4E2D", "sp", "u5927">>,
      <<"u5C0F", "u4E2D", "u5927">>,
      <<"tab", "a", "sp", "b", "cr">>,
      <<"u3000", "sp">>,
      <<>> }

RawTexts == {JoinLines(ls) : ls \in SeqsUpTo(RawLines, MaxLines)}

MaxEvidence == 3

\* identifiers of a query's evidence items: Id1 by filename and by opaque
\* id, Id2, Id3
MainEvidenceNames ==
    { Id1 \o MdSuffix, FilesPrefix \o Opaque, Id2, FilesPrefix \o Id3 \o MdSuffix }

MainEvidenceLists ==
    UNION { { [k \in 1..n |-> [filename |-> names[k], snippet |-> <<"s", DigitChar[k]>>]]
              : names \in [1..n -> MainEvidenceNames] } : n \in 0..MaxEvidence }

\* case tables of main: Id1 with a citation table, Id2 with or without a URL
\* and dated as Id1 or later, Id3 with an empty record or with a citation
\* table that holds a key starting with a connector
MainCaseTables ==
    { (Id1 :> [date |-> Date2, original_url |-> Url("1"),
               law_links |-> << [law |-> LawA, link |-> UrlA] >>])
        @@ (Id2 :> [date |-> d2, original_url |-> u2])
        @@ (Id3 :> r3) :
        d2 \in {Date1, Date2},
        u2 \in {Url("2"), <<>>},
        r3 \in {<<>>,
                [date |-> Date2, original_url |-> Url("3"),
                 law_links |-> << [law |-> <<"ji">> \o LawS, link |-> UrlS],
                                 [law |-> LawA, link |-> UrlB] >>]} }

\* generated answers: two headings and a citation, three headings, no heading
AnswerTexts ==
    { JoinLines(<< <<"#", "#", "#", "sp", "1", ".", "sp", "A">>, LawA,
                   <<"#", "#", "#", "sp", "2", ".", "sp", "B">> >>),
      JoinLines(<< <<"#", "#", "#", "sp", "1", ".", "sp", "A">>,
                   <<"#", "#", "#", "sp", "2", ".", "sp", "B">>,
                   <<"#", "#", "#", "sp", "3", ".", "sp", "S">> >>),
      <<"x">> }

\* what query_penalties may return: a failure, or an answer with evidence
QueryResults ==
    { [success |-> FALSE, text |-> <<>>, sources |-> <<>>, error |-> <<"e">>] }
      \cup { [success |-> TRUE, text |-> t, sources |-> srcs, error |-> <<>>] :
               t \in AnswerTexts, srcs \in MainEvidenceLists }

Queries == { <<>>, <<"q">> }

\* the linker has not run
NoRun == [result |-> <<>>, replaced_positions |-> {}, links |-> <<>>]

ResolverIdle == filename = <<>> /\ file_id = None
RankerIdle == sources = <<>> /\ file_mapping = <<>> /\ unique_sources = <<>>
LinkerIdle == text = <<>> /\ law_links_dict = <<>> /\ linked = NoRun /\ relinked = NoRun
TitleIdle == heading_text = <<>> /\ url_list = <<>> /\ titled = <<>> /\ retitled = <<>>
NoiseIdle == raw_text = <<>> /\ cleaned = <<>> /\ recleaned = <<>>

\* no query was made, and nothing is shown
NoResult == [success |-> FALSE, text |-> <<>>, sources |-> <<>>, error |-> <<>>]
NothingShown ==
    [kind |-> "nothing", text |-> <<>>, case_urls |-> <<>>, all_law_links |-> <<>>,
     references |-> FALSE, error |-> <<>>]
MainIdle ==
    /\ query = <<>>
    /\ query_result = NoResult
    /\ calls = 0
    /\ retry_attempted = FALSE
    /\ shown = NothingShown

-----------------------------------------------------------------------------
(* The resolver applied to one identifier *)

InitResolver ==
    /\ pc = "start"
    /\ filename \in Filenames
    /\ gemini_id_mapping \in ReverseMaps
    /\ file_id = None
    /\ RankerIdle
    /\ LinkerIdle
    /\ TitleIdle
    /\ NoiseIdle
    /\ MainIdle

Resolve ==
    /\ pc = "start"
    /\ file_id' = extract_file_id(filename, gemini_id_mapping)
    /\ pc' = "resolved"
    /\ UNCHANGED <<filename, gemini_id_mapping, rankerVars, linkerVars,
                   titleVars, noiseVars, mainVars>>

NextResolver == Resolve

SpecResolver == InitResolver /\ [][NextResolver]_vars

-----------------------------------------------------------------------------
(* Claims about the ID Resolver *)

\* fsc_pen_ + 8 digits + _ + 4 digits, and nothing else
IsCanonicalForm(s) ==
    /\ Len(s) = 21
    /\ SubSeq(s, 1, 8) = <<"f", "s", "c", "_", "p", "e", "n", "_">>
    /\ \A k \in 9..16 : s[k] \in Digits
    /\ s[17] = "_"
    /\ \A k \in 18..21 : s[k] \in Digits

PrefixesOf(s) == {SubSeq(s, 1, n) : n \in 0..Len(s)}

\* the map holds an entry under 'files/' + identifier-without-'files/'
HasEntry ==
    /\ ~gemini_id_mapping.isNone
    /\ FilesPrefix \o str_remove(filename, FilesPrefix) \in DOMAIN gemini_id_mapping.items

\* C7: the resolver returns the reverse-map value stored for the identifier,
\* or else the canonical-form string that starts the identifier once 'files/'
\* and '.md' are removed, or else None; never the raw identifier.
C7_NeverRawFallback ==
    pc = "resolved" =>
        LET stem == str_remove(str_remove(filename, FilesPrefix), MdSuffix)
            canon == {c \in PrefixesOf(stem) : IsCanonicalForm(c)}
        IN \/ /\ HasEntry
              /\ file_id = gemini_id_mapping.items[FilesPrefix \o str_remove(filename, FilesPrefix)]
           \/ /\ ~HasEntry
              /\ canon # {}
              /\ file_id \in canon
           \/ /\ ~HasEntry
              /\ canon = {}
              /\ file_id = None

\* the identifier of spec scenario 5 (fsc_pen_ + date + _abcd.md, no map
\* entry) has been resolved to None
C7_Witness ==
    /\ pc = "resolved"
    /\ filename = Stem1 \o <<"a", "b", "c", "d">> \o MdSuffix
    /\ ~HasEntry
    /\ file_id = None

\* the canonical-form substrings of the identifier
CanonicalIn(s) ==
    {c \in {SubSeq(s, i, i + 20) : i \in 1..(Len(s) - 20)} : IsCanonicalForm(c)}

\* C8: a canonical id c, written c, c.md, files/c or files/c.md, resolves to c
\* when the reverse map is absent or holds no entry for that filename.
C8_FixedPoint ==
    pc = "resolved" =>
        \A c \in CanonicalIn(filename) :
            ( /\ filename \in {c, c \o MdSuffix, FilesPrefix \o c, FilesPrefix \o c \o MdSuffix}
              /\ ~HasEntry )
            => file_id = c

\* files/c.md has been resolved to c through the structural match
C8_Witness ==
    /\ pc = "resolved"
    /\ filename = FilesPrefix \o Id1 \o MdSuffix
    /\ ~gemini_id_mapping.isNone
    /\ ~HasEntry
    /\ file_id = Id1

-----------------------------------------------------------------------------
(* The ranker applied to one evidence list *)

InitRanker ==
    /\ pc = "start"
    /\ sources \in EvidenceLists
    /\ file_mapping \in CaseTables
    /\ gemini_id_mapping \in RankerMaps
    /\ unique_sources = <<>>
    /\ ResolverIdle
    /\ LinkerIdle
    /\ TitleIdle
    /\ NoiseIdle
    /\ MainIdle

DisplaySources ==
    /\ pc = "start"
    /\ unique_sources' = display_sources_simple(sources, file_mapping, gemini_id_mapping)
    /\ pc' = "displayed"
    /\ UNCHANGED <<gemini_id_mapping, sources, file_mapping, resolverVars, linkerVars,
                   titleVars, noiseVars, mainVars>>

NextRanker == DisplaySources

SpecRanker == InitRanker /\ [][NextRanker]_vars

-----------------------------------------------------------------------------
(* Claims about the Source Deduplicator & Ranker *)

\* the resolver's result for evidence item k
Resolved(k) == extract_file_id(sources[k].filename, gemini_id_mapping)

\* the position of the first evidence item that resolves to id
FirstSeen(id) ==
    CHOOSE k \in 1..Len(sources) :
        /\ Resolved(k) = id
        /\ \A j \in 1..(k - 1) : Resolved(j) # id

\* the case date of entry i of the reference list ('' when the record has none)
DateOfEntry(i) ==
    LET rec == file_mapping[unique_sources[i].file_id]
    IN IF "date" \in DOMAIN rec THEN rec.date ELSE <<>>

\* C9: the reference list holds at most one entry per canonical id, is sorted
\* by case date descending, and entries with equal dates keep the order in
\* which their ids were first seen in the evidence list.
C9_DedupAndOrder ==
    pc = "displayed" =>
        \A i, j \in 1..Len(unique_sources) :
            i < j =>
                /\ unique_sources[i].file_id # unique_sources[j].file_id
                /\ ~StrLt(DateOfEntry(i), DateOfEntry(j))
                /\ DateOfEntry(i) = DateOfEntry(j) =>
                       FirstSeen(unique_sources[i].file_id)
                           < FirstSeen(unique_sources[j].file_id)

\* a list of three cases was built from evidence that names one case twice,
\* with two cases of equal date and one of another date
C9_Witness ==
    /\ pc = "displayed"
    /\ Len(unique_sources) = 3
    /\ Len(sources) > 3
    /\ \E k, l \in 1..Len(sources) : k < l /\ Resolved(k) = Resolved(l) /\ Resolved(k) = Id1
    /\ \E i, j \in 1..3 : i < j /\ DateOfEntry(i) = DateOfEntry(j)
    /\ \E i, j \in 1..3 : i < j /\ StrLt(DateOfEntry(j), DateOfEntry(i))

\* C10: every entry of the reference list has an id that is a key of the case
\* table and is the resolver's result for an evidence item, whose excerpt it
\* carries; items that fail resolution or resolve outside the table add nothing.
C10_OnlyResolvedInTable ==
    pc = "displayed" =>
        \A i \in 1..Len(unique_sources) :
            /\ unique_sources[i].file_id \in DOMAIN file_mapping
            /\ \E k \in 1..Len(sources) :
                  /\ Resolved(k) = unique_sources[i].file_id
                  /\ sources[k].snippet = unique_sources[i].snippet

\* a non-empty list was built from evidence holding an item that fails
\* resolution and an item that resolves to an id outside the case table
C10_Witness ==
    /\ pc = "displayed"
    /\ unique_sources # <<>>
    /\ \E k \in 1..Len(sources) : Resolved(k) = None
    /\ \E k \in 1..Len(sources) :
          Resolved(k) # None /\ Resolved(k) \notin DOMAIN file_mapping

-----------------------------------------------------------------------------
(* The linker applied to one text, and again to its own output *)

InitLinker ==
    /\ pc = "start"
    /\ text \in Texts
    /\ law_links_dict \in LawTables
    /\ linked = NoRun
    /\ relinked = NoRun
    /\ gemini_id_mapping = NoMap
    /\ ResolverIdle
    /\ RankerIdle
    /\ TitleIdle
    /\ NoiseIdle
    /\ MainIdle

Link ==
    /\ pc = "start"
    /\ linked' = add_law_links_to_text(text, law_links_dict)
    /\ pc' = "linked"
    /\ UNCHANGED <<text, law_links_dict, relinked, gemini_id_mapping, resolverVars,
                   rankerVars, titleVars, noiseVars, mainVars>>

Relink ==
    /\ pc = "linked"
    /\ relinked' = add_law_links_to_text(linked.result, law_links_dict)
    /\ pc' = "relinked"
    /\ UNCHANGED <<text, law_links_dict, linked, gemini_id_mapping, resolverVars,
                   rankerVars, titleVars, noiseVars, mainVars>>

NextLinker == Link \/ Relink

SpecLinker == InitLinker /\ [][NextLinker]_vars

-----------------------------------------------------------------------------
(* Claims about the Law-Citation Linker *)

\* the links inserted by the call on text
Inserted == 1..Len(linked.links)

\* C1: running the linker on its own output changes nothing.
C1_Idempotent ==
    pc = "relinked" => relinked.result = linked.result

IsProperSuffix(a, b) ==
    Len(a) < Len(b) /\ SubSeq(b, Len(b) - Len(a) + 1, Len(b)) = a

LabelOf(g) ==
    LET open == CHOOSE i \in 1..Len(g.replacement) :
                    g.replacement[i] = "[" /\ \A j \in 1..(i - 1) : g.replacement[j] # "["
    IN SubSeq(g.replacement, open + 1, Len(g.replacement) - Len(g.link) - 3)

\* s without trailing paragraph, item and sub-item qualifiers
RECURSIVE StripQualifiers(_)
StripQualifiers(s) ==
    LET n == Len(s)
        quals == {k \in 1..(n - 2) :
                     /\ s[k] = "di"
                     /\ \A j \in (k + 1)..(n - 1) : s[j] \in Digits
                     /\ s[n] \in {"xiang", "kuan", "mu"}}
    IN IF quals = {} THEN s
       ELSE StripQualifiers(SubSeq(s, 1, (CHOOSE k \in quals : TRUE) - 1))

\* the sub-article suffix (zhi + digits) that follows position p of s, if any
SubArticleAt(s, p) ==
    IF p <= Len(s) /\ s[p] = "zhi" /\ Run(s, p + 1, Digits) >= 1
    THEN SubSeq(s, p, p + Run(s, p + 1, Digits))
    ELSE <<>>

\* the citation an inserted link stands on: the statute name and article
\* number of its label (quotes, spaces, connectors and qualifiers aside)
\* together with the sub-article suffix the text carries right after it
CitedBy(g) ==
    LET bare == SelectSeq(LabelOf(g),
                    LAMBDA c : c \notin {"lq", "rq"} \cup Whitespace \cup Connectors1)
    IN StripQualifiers(bare) \o SubArticleAt(linked.result, g.to + 1)

\* C4: only citations of the table are linked: the statute name plus article
\* number (sub-article suffix included) under every inserted link is a table
\* key, the link carries that key's URL, and an empty table changes nothing.
C4_OnlyTableCitations ==
    pc = "linked" =>
        /\ law_links_dict = <<>> => linked.result = text
        /\ \A i \in Inserted :
              \E k \in 1..Len(law_links_dict) :
                  /\ law_links_dict[k].law = CitedBy(linked.links[i])
                  /\ law_links_dict[k].link = linked.links[i].link

\* l is a markdown link [label](url)
IsLink(l) ==
    /\ Len(l) >= 4
    /\ l[1] = "["
    /\ l[Len(l)] = ")"
    /\ \E k \in 2..(Len(l) - 2) :
          /\ l[k] = "]"
          /\ l[k + 1] = "("
          /\ \A j \in 2..(k - 1) : l[j] \notin {"[", "]"}
          /\ \A j \in (k + 2)..(Len(l) - 1) : l[j] \notin {"[", "]", "(", ")"}

Contains(s, l) == \E p \in 1..(Len(s) - Len(l) + 1) : OccursAt(s, p, l)

\* C5: every markdown link the input text already holds appears unchanged in
\* the output.
C5_ExistingLinksKept ==
    pc = "linked" =>
        \A i, j \in 1..Len(text) :
            (i < j /\ IsLink(SubSeq(text, i, j)))
                => Contains(linked.result, SubSeq(text, i, j))

\* the connector a matched text starts with, and the spaces after it
ConnectorOf(mt) ==
    IF mt[1] \in Connectors1 THEN SubSeq(mt, 1, 1 + Run(mt, 2, Whitespace)) ELSE <<>>

\* C6: an abbreviated key is linked only after a connector, and every
\* replacement is connector + [ + citation text + ]( + url + ), the connector
\* outside the link markup.
C6_ConnectorOutside ==
    pc = "linked" =>
        \A i \in Inserted :
            LET g == linked.links[i]
                c == ConnectorOf(g.matched)
            IN /\ StartsWithDi(g.law) => g.matched[1] \in Connectors2
               /\ g.replacement =
                      c \o <<"[">> \o From(g.matched, Len(c) + 1)
                        \o <<"]", "(">> \o g.link \o <<")">>

-----------------------------------------------------------------------------
(* The case-title linker applied to one text, and again to its own output *)

InitTitle ==
    /\ pc = "start"
    /\ heading_text \in HeadingTexts
    /\ url_list \in UrlLists
    /\ titled = <<>>
    /\ retitled = <<>>
    /\ gemini_id_mapping = NoMap
    /\ ResolverIdle
    /\ RankerIdle
    /\ LinkerIdle
    /\ NoiseIdle
    /\ MainIdle

InsertCaseLinks ==
    /\ pc = "start"
    /\ titled' = insert_case_links_by_order(heading_text, url_list)
    /\ pc' = "titled"
    /\ UNCHANGED <<heading_text, url_list, retitled, gemini_id_mapping, resolverVars,
                   rankerVars, linkerVars, noiseVars, mainVars>>

InsertCaseLinksAgain ==
    /\ pc = "titled"
    /\ retitled' = insert_case_links_by_order(titled, url_list)
    /\ pc' = "retitled"
    /\ UNCHANGED <<heading_text, url_list, titled, gemini_id_mapping, resolverVars,
                   rankerVars, linkerVars, noiseVars, mainVars>>

NextTitle == InsertCaseLinks \/ InsertCaseLinksAgain

SpecTitle == InitTitle /\ [][NextTitle]_vars

-----------------------------------------------------------------------------
(* Claims about the Case-Title Linker *)

\* the headings of the input text, in text order
Headings == HeadingMatches(heading_text, 1)

\* a title that is already a link: it starts with [ and holds ](
LooksLinked(title) ==
    /\ title # <<>>
    /\ title[1] = "["
    /\ Contains(title, <<"]", "(">>)

\* heading i (1-based) is rewritten: it has a URL and its title is no link
Rewritten(i) ==
    i <= Len(url_list) /\ ~LooksLinked(Strip(Headings[i].title))

\* the text from heading i on, as the claim describes it: heading i becomes
\* prefix + [title](url of the same index) when it is rewritten and stays as
\* it is otherwise, and the text up to the next heading is kept
RECURSIVE ExpectedFrom(_)
ExpectedFrom(i) ==
    IF i > Len(Headings) THEN <<>>
    ELSE LET h == Headings[i]
             stop == IF i < Len(Headings) THEN Headings[i + 1].start
                     ELSE Len(heading_text)
         IN (IF Rewritten(i)
             THEN h.prefix \o <<"[">> \o Strip(h.title) \o <<"]", "(">>
                      \o url_list[i] \o <<")">>
             ELSE SubSeq(heading_text, h.start + 1, h.end))
                \o SubSeq(heading_text, h.end + 1, stop)
                \o ExpectedFrom(i + 1)

\* C11: heading i (0-based, in text order) is rewritten to [title](urls[i])
\* exactly when i < m and its title is not already a link; every other
\* heading and all text outside the titles is unchanged, and a heading
\* skipped as already linked still consumes its index.
C11_Alignment ==
    pc = "titled" =>
        titled = IF Headings = <<>> THEN heading_text
                 ELSE SubSeq(heading_text, 1, Headings[1].start) \o ExpectedFrom(1)

\* three headings and two URLs: the first heading was skipped as already
\* linked, the second was given the second URL, the third was left alone
C11_Witness ==
    /\ pc = "titled"
    /\ Len(Headings) = 3
    /\ Len(url_list) = 2
    /\ LooksLinked(Headings[1].title)
    /\ Rewritten(2)
    /\ Contains(titled, <<"[", "A", "]", "(", "u", "2", ")">>)
    /\ titled # heading_text

\* C12: the case-title linker applied to its own output with the same URL
\* list returns that output unchanged.
C12_TitleIdempotent ==
    pc = "retitled" => retitled = titled

\* a text whose two headings were both rewritten has been linked again
C12_Witness ==
    /\ pc = "retitled"
    /\ Len(Headings) >= 2
    /\ Rewritten(1)
    /\ Rewritten(2)
    /\ titled # heading_text
    /\ retitled = titled

-----------------------------------------------------------------------------
(* The noise filter applied to one raw text, and again to its own output *)

InitNoise ==
    /\ pc = "start"
    /\ raw_text \in RawTexts
    /\ cleaned = <<>>
    /\ recleaned = <<>>
    /\ gemini_id_mapping = NoMap
    /\ ResolverIdle
    /\ RankerIdle
    /\ LinkerIdle
    /\ TitleIdle
    /\ MainIdle

RemoveNoise ==
    /\ pc = "start"
    /\ cleaned' = remove_social_media_noise(raw_text)
    /\ pc' = "cleaned"
    /\ UNCHANGED <<raw_text, recleaned, gemini_id_mapping, resolverVars, rankerVars,
                   linkerVars, titleVars, mainVars>>

RemoveNoiseAgain ==
    /\ pc = "cleaned"
    /\ recleaned' = remove_social_media_noise(cleaned)
    /\ pc' = "recleaned"
    /\ UNCHANGED <<raw_text, cleaned, gemini_id_mapping, resolverVars, rankerVars,
                   linkerVars, titleVars, mainVars>>

NextNoise == RemoveNoise \/ RemoveNoiseAgain

SpecNoise == InitNoise /\ [][NextNoise]_vars

-----------------------------------------------------------------------------
(* Claims about the Noise Filter *)

\* a line in lower case
RECURSIVE Lowered(_)
Lowered(line) ==
    IF line = <<>> THEN <<>> ELSE <<IgnoreCase(Head(line))>> \o Lowered(Tail(line))

\* a line that holds a boilerplate marker, in any case
Boilerplate(line) ==
    \E i \in 1..Len(noise_patterns) : Contains(Lowered(line), Lowered(noise_patterns[i]))

\* the trimmed lines of a text from line i on that are neither empty nor
\* boilerplate, in their order
RECURSIVE KeptLines(_, _)
KeptLines(lines, i) ==
    IF i > Len(lines) THEN <<>>
    ELSE LET line == strip(lines[i])
         IN (IF line # <<>> /\ ~Boilerplate(line) THEN <<line>> ELSE <<>>)
                \o KeptLines(lines, i + 1)

\* C13: the noise filter's output is the trimmed, non-empty, non-boilerplate
\* lines of the input in their original order, and the filter applied to
\* its own output returns that output.
C13_NoiseIdempotent ==
    /\ pc \in {"cleaned", "recleaned"} =>
           cleaned = JoinLines(KeptLines(split(raw_text), 1))
    /\ pc = "recleaned" => recleaned = cleaned

\* a text that lost a boilerplate line and a blank line, kept one line
\* trimmed, and was filtered again
C13_Witness ==
    /\ pc = "recleaned"
    /\ \E i \in 1..Len(split(raw_text)) : Boilerplate(split(raw_text)[i])
    /\ \E i \in 1..Len(split(raw_text)) :
           split(raw_text)[i] # <<>> /\ strip(split(raw_text)[i]) = <<>>
    /\ cleaned # <<>>
    /\ Len(split(cleaned)) = 1
    /\ \E i \in 1..Len(split(raw_text)) :
           /\ strip(split(raw_text)[i]) # split(raw_text)[i]
           /\ strip(split(raw_text)[i]) = split(cleaned)[1]
    /\ cleaned # raw_text
    /\ recleaned = cleaned

-----------------------------------------------------------------------------
(* main: one press of the search button *)

InitMain ==
    /\ pc = "start"
    /\ query \in Queries
    /\ query_result = NoResult
    /\ calls = 0
    /\ retry_attempted = FALSE
    /\ shown = NothingShown
    /\ gemini_id_mapping \in RankerMaps
    /\ file_mapping \in MainCaseTables
    /\ sources = <<>>
    /\ unique_sources = <<>>
    /\ ResolverIdle
    /\ LinkerIdle
    /\ TitleIdle
    /\ NoiseIdle

\* `if search_button and query`: the first query
FirstQuery ==
    /\ pc = "start"
    /\ query # <<>>
    /\ \E r \in QueryResults : query_result' = r
    /\ calls' = calls + 1
    /\ retry_attempted' = FALSE
    /\ pc' = "queried"
    /\ UNCHANGED <<query, shown, gemini_id_mapping, resolverVars, rankerVars,
                   linkerVars, titleVars, noiseVars>>

\* the retry
Retry ==
    /\ pc = "queried"
    /\ NeedsRetry(query_result)
    /\ retry_attempted' = TRUE
    /\ \E r \in QueryResults : query_result' = r
    /\ calls' = calls + 1
    /\ pc' = "retried"
    /\ UNCHANGED <<query, shown, gemini_id_mapping, resolverVars, rankerVars,
                   linkerVars, titleVars, noiseVars>>

\* the display of the final result
Display ==
    /\ \/ pc = "queried" /\ ~NeedsRetry(query_result)
       \/ pc = "retried"
    /\ IF ~query_result.success
       THEN /\ shown' = ShowError(query_result.error)
            /\ UNCHANGED <<sources, unique_sources>>
       ELSE IF retry_attempted /\ Len(query_result.sources) = 0
       THEN /\ shown' = ShowNoResultWarning
            /\ UNCHANGED <<sources, unique_sources>>
       ELSE /\ shown' = ShowAnswer(query_result, file_mapping, gemini_id_mapping)
            /\ IF Len(query_result.sources) > 0
               THEN /\ sources' = query_result.sources
                    /\ unique_sources' =
                           display_sources_simple(query_result.sources, file_mapping,
                                                  gemini_id_mapping)
               ELSE UNCHANGED <<sources, unique_sources>>
    /\ pc' = "done"
    /\ UNCHANGED <<query, query_result, calls, retry_attempted, file_mapping,
                   gemini_id_mapping, resolverVars, linkerVars, titleVars, noiseVars>>

\* `elif search_button and not query`
EmptyQuery ==
    /\ pc = "start"
    /\ query = <<>>
    /\ shown' = ShowNoQueryWarning
    /\ pc' = "done"
    /\ UNCHANGED <<query, query_result, calls, retry_attempted, gemini_id_mapping,
                   resolverVars, rankerVars, linkerVars, titleVars, noiseVars>>

NextMain == FirstQuery \/ Retry \/ Display \/ EmptyQuery

SpecMain == InitMain /\ [][NextMain]_vars

-----------------------------------------------------------------------------
(* Claims about main *)

\* the answer of the search is displayed
AnswerShown == pc = "done" /\ shown.kind = "answer"

\* the original URLs of the reference list's entries, in its order
ReferenceUrls ==
    [i \in 1..Len(unique_sources) |->
        Get(file_mapping[unique_sources[i].file_id], "original_url", <<>>)]

\* C14: the URL list handed to the Case-Title Linker is the query's
\* ReferenceList: the i-th URL is the original URL of the i-th entry of the
\* list display_sources_simple shows.
C14_UrlsAreReferenceList ==
    AnswerShown => shown.case_urls = ReferenceUrls

\* the link the Law-Citation Linker writes for a citation to a URL ends with
\* this
LinkTo(link) == <<"]", "(">> \o link \o <<")">>

RetryPolicy ==
    /\ calls' <= 2
    /\ calls' = calls \/ calls' = calls + 1
    /\ (calls = 1 /\ calls' = 2) => (query_result.success /\ Len(query_result.sources) = 0)
    /\ (pc' = "done" /\ calls' = 1) =>
           ~(query_result'.success /\ Len(query_result'.sources) = 0)
    /\ (pc' = "done" /\ calls' = 2 /\ query_result'.success
            /\ Len(query_result'.sources) = 0) =>
           /\ shown'.kind = "warning"
           /\ shown'.text = <<>>
           /\ shown'.case_urls = <<>>
           /\ ~shown'.references
           /\ unique_sources' = <<>>
    /\ (pc' = "done" /\ calls' >= 1 /\ ~query_result'.success) =>
           /\ shown'.kind = "error"
           /\ shown'.error = query_result'.error
           /\ shown'.text = <<>>
           /\ ~shown'.references
           /\ unique_sources' = <<>>

\* C16: per search action the external query is issued at most twice; the
\* second call happens exactly when the first succeeded with zero evidence
\* items; if the retry also succeeds with zero evidence items the answer
\* text is not displayed and no linking or reference list is produced; if
\* the final result is a failure only the error is shown.
C16_RetryPolicy == [][RetryPolicy]_vars

\* a search whose two calls both succeeded with no evidence ended with the
\* warning
C16_Witness ==
    /\ pc = "done"
    /\ calls = 2
    /\ retry_attempted
    /\ query_result.success
    /\ Len(query_result.sources) = 0
    /\ query_result.text # <<>>
    /\ shown.kind = "warning"

====
